---- MODULE Spec2Model ----
(***************************************************************************)
(* Model of streamlit_app.py: the adaptive batch summarizer                *)
(* (summarize_articles), its orchestrator (summarize_stock_news, with the  *)
(* company lookup and fetch_news as collaborators) and the password gate   *)
(* of the Streamlit script.                                                *)
(*                                                                         *)
(* Strings are sequences of one-character strings, so that strip() and     *)
(* "\n\n".join() are computed and not assumed.  The fixed user-facing      *)
(* messages are one-element sequences holding the whole message.           *)
(***************************************************************************)
EXTENDS Integers, Sequences, FiniteSets, TLC

(* ------------------------------ bounds -------------------------------- *)
\* longest article list handed to summarize_articles
MaxArticles == 3
\* most rate-limit errors the model raises in one run
MaxRateLimits == 2
\* the day datetime.now() falls on (days are numbered)
Today == 40

(* ------------------------- program constants -------------------------- *)
max_model_tokens == 8192
max_output_tokens == 512
max_tokens_per_minute == 7000
\* estimated_tokens_per_char = 1 / 4, kept as its denominator
CharsPerToken == 4
\* title[:80]
TitleCut == 80
\* len(" (Link: ") + len(")")
LinkWrap == 9
\* wait used when the rate-limit message carries no "Please try again in"
DefaultWait == 60
\* timedelta(days=30)
DefaultWindow == 30

VARIABLES
    pc,               \* position of the single thread of control
    articles,         \* argument of summarize_articles (the caller's list)
    batch_articles,   \* articles.copy(), then the not yet summarized rest
    summaries,        \* one stripped summary per successful model call
    num_articles,     \* candidate batch size of the inner loop
    wait_time,        \* last value passed to time.sleep (0: never slept)
    result,           \* value returned to the caller
    start_date,       \* summarize_stock_news: start_date as it stands
    end_date,         \* summarize_stock_news: end_date as it stands
    correct_password, \* os.getenv("APP_PASSWORD")
    password,         \* content of the password field
    shown,            \* the last script run took the branch showing the form
    batches,          \* history: the batches of the successful model calls
    lastCall,         \* history: the most recent model call of the run and
                      \*   the APIError it raised, if any
    seen,             \* history: <<size class, outcome>> of the run's calls
                      \*   (rate-limit errors are counted in rateLimits)
    modelCalls,       \* history: number of model calls of the run
    rateLimits,       \* history: number of rate-limit errors of the run
    lookups,          \* history: company lookups of the run
    fetches,          \* history: feed requests of the run
    entry,            \* history: the function the caller invoked
    args              \* history: what the date arguments of the call were

vars == <<pc, articles, batch_articles, summaries, num_articles, wait_time,
          result, start_date, end_date, correct_password, password, shown,
          batches, lastCall, seen, modelCalls, rateLimits, lookups, fetches,
          entry, args>>

saVars == <<articles, batch_articles, summaries, num_articles, wait_time>>
ssnVars == <<start_date, end_date>>
uiVars == <<correct_password, password, shown>>
callVars == <<entry, args>>
histVars == <<batches, lastCall, seen, modelCalls, rateLimits, lookups, fetches>>

Min(a, b) == IF a <= b THEN a ELSE b

(* ------------------------------ values -------------------------------- *)
NoneVal == [type |-> "NoneType"]
Str(s) == [type |-> "str", val |-> s]

\* (title, link) of an article by their lengths; id stands for the content.
\* Rendered, the three kinds are 119, 12977 and 25956 characters long: two
\* of the second kind joined are 25955 characters, the longest prompt body
\* within the budget, and the third kind is over the budget alone.
ArticleKinds ==
    { [title_len |-> 100, link_len |-> 30],
      [title_len |-> 100, link_len |-> 12888],
      [title_len |-> 40,  link_len |-> 25907] }

MkArticle(i, k) == [id |-> i, title_len |-> k.title_len, link_len |-> k.link_len]

ArticleLists ==
    UNION { { [i \in 1..n |-> MkArticle(i, f[i])] : f \in [1..n -> ArticleKinds] }
            : n \in 0..MaxArticles }

IdChars == <<"a", "b", "c", "d", "e", "f", "g", "h">>
Whitespace == {" ", "\n"}

(* ------------------------ summarize_articles -------------------------- *)
\* len(f"{title[:80]} (Link: {link})")
RenderLen(a) == Min(a.title_len, TitleCut) + LinkWrap + a.link_len

RECURSIVE SumRenderLen(_)
SumRenderLen(b) ==
    IF b = <<>> THEN 0 ELSE RenderLen(Head(b)) + SumRenderLen(Tail(b))

\* len("\n".join(lines))
SummaryInputLen(b) ==
    IF b = <<>> THEN 0 ELSE SumRenderLen(b) + (Len(b) - 1)

\* round(n / 4) as Python computes it: halves go to the even neighbour
PyRoundQuarter(n) ==
    LET q == n \div CharsPerToken
        r == n % CharsPerToken
    IN  IF 2 * r < CharsPerToken THEN q
        ELSE IF 2 * r > CharsPerToken THEN q + 1
        ELSE IF q % 2 = 0 THEN q ELSE q + 1

\* variant: the estimate is rounded to the nearest token
InputTokensRounded(b) == PyRoundQuarter(SummaryInputLen(b))

\* int(len(summary_input) * estimated_tokens_per_char)
InputTokens(b) == SummaryInputLen(b) \div CharsPerToken

TotalTokens(b) == InputTokens(b) + max_output_tokens

\* variant: the budget is the context window alone
FitsModelOnly(b) == TotalTokens(b) <= max_model_tokens

\* variant: the output tokens are left out of the sum
FitsInputOnly(b) ==
    InputTokens(b) <= Min(max_model_tokens, max_tokens_per_minute)

Fits(b) == TotalTokens(b) <= Min(max_model_tokens, max_tokens_per_minute)

\* variant: the batch is taken from the back of the queue
BatchFromBack ==
    SubSeq(batch_articles, Len(batch_articles) - num_articles + 1,
           Len(batch_articles))

\* batch_articles[:num_articles]
Batch == SubSeq(batch_articles, 1, num_articles)

\* variant: the slice starts one article too far
RestSkipsOne(q, n) == SubSeq(q, n + 2, Len(q))

\* batch_articles[num_articles:]
Rest(q, n) == SubSeq(q, n + 1, Len(q))

RECURSIVE LStrip(_)
LStrip(s) ==
    IF s # <<>> /\ Head(s) \in Whitespace THEN LStrip(Tail(s)) ELSE s

RECURSIVE RStrip(_)
RStrip(s) ==
    IF s # <<>> /\ s[Len(s)] \in Whitespace
    THEN RStrip(SubSeq(s, 1, Len(s) - 1)) ELSE s

\* str.strip()
Strip(s) == RStrip(LStrip(s))

\* "\n\n".join(l)
RECURSIVE Join(_)
Join(l) ==
    IF l = <<>> THEN <<>>
    ELSE IF Len(l) = 1 THEN l[1]
    ELSE l[1] \o <<"\n", "\n">> \o Join(Tail(l))

(* ------------------------- the language model ------------------------- *)
\* what a deterministic model stub answers for a batch (before strip)
StubText(b) == <<" ">> \o [i \in 1..Len(b) |-> IdChars[b[i].id]] \o <<"\n">>

\* an answer made of whitespace only
BlankText == <<" ">>

ModelTexts(b) == {StubText(b), BlankText}

\* str(e) of an APIError, by the substrings the handler looks for:
\* rate: 'rate_limit_exceeded', ctx: 'context_length_exceeded' or 'Please
\* reduce the length...', hasWait/wait: 'Please try again in <wait>s'
APIErrors ==
    { [rate |-> TRUE,  ctx |-> FALSE, hasWait |-> TRUE,  wait |-> 2],
      [rate |-> TRUE,  ctx |-> FALSE, hasWait |-> FALSE, wait |-> 0],
      [rate |-> TRUE,  ctx |-> TRUE,  hasWait |-> FALSE, wait |-> 0],
      [rate |-> FALSE, ctx |-> TRUE,  hasWait |-> FALSE, wait |-> 0],
      [rate |-> FALSE, ctx |-> FALSE, hasWait |-> TRUE,  wait |-> 2],
      [rate |-> FALSE, ctx |-> FALSE, hasWait |-> FALSE, wait |-> 0] }

\* the if / elif / else of the except clause
Classify(e) ==
    IF e.rate THEN "rate_limit"
    ELSE IF e.ctx THEN "context_length"
    ELSE "other"

\* variant: the suggested wait is slept as it is
WaitTimeNoMargin(e) == IF e.hasWait THEN e.wait ELSE DefaultWait

\* float(wait_time_match.group(1)) + 1 if wait_time_match else 60
WaitTime(e) == IF e.hasWait THEN e.wait + 1 ELSE DefaultWait

\* no APIError was raised
NoError == [rate |-> FALSE, ctx |-> FALSE, hasWait |-> FALSE, wait |-> 0]

NoCall == [batch |-> <<>>, tokens |-> 0, outcome |-> "none", error |-> NoError]
SizeClass(n) == IF n = 1 THEN "one" ELSE "many"
Called(tag, e) ==
    [batch |-> Batch, tokens |-> TotalTokens(Batch), outcome |-> tag,
     error |-> e]
TextTag(t) == IF t = StubText(Batch) THEN "ok" ELSE "blank"

\* Bookkeeping of one client.chat.completions.create call.
Record(tag, e) ==
    /\ lastCall' = Called(tag, e)
    /\ seen' = IF tag = "rate_limit" THEN seen
               ELSE seen \cup {<<SizeClass(num_articles), tag>>}
    /\ modelCalls' = modelCalls + 1
    /\ rateLimits' = IF tag = "rate_limit" THEN rateLimits + 1 ELSE rateLimits

\* variant: only the last summary is returned
ReturnedLast(l) ==
    /\ result' = IF l = <<>> THEN <<>> ELSE l[Len(l)]
    /\ pc' = "returned"

\* "\n\n".join(summaries) on a return
Returned(l) ==
    /\ result' = Join(l)
    /\ pc' = "returned"

\* summarize_articles(arts): the locals before the outer loop
Enter(arts) ==
    /\ articles' = arts
    /\ batch_articles' = arts
    /\ summaries' = <<>>
    /\ num_articles' = 0
    /\ wait_time' = 0
    /\ pc' = "sa_outer"

CallSummarizeArticles(arts) ==
    /\ pc = "idle"
    /\ Enter(arts)
    /\ entry' = "summarize_articles"
    /\ UNCHANGED <<result, ssnVars, uiVars, histVars, args>>

\* variant: the first candidate leaves the last article out
OuterLoopOneShort ==
    /\ pc = "sa_outer"
    /\ batch_articles # <<>>
    /\ num_articles' = Len(batch_articles) - 1
    /\ pc' = "sa_inner"
    /\ UNCHANGED <<articles, batch_articles, summaries, wait_time, result,
                   ssnVars, uiVars, histVars, callVars>>

\* variant: the first candidate has any size
OuterLoopAnySize ==
    /\ pc = "sa_outer"
    /\ batch_articles # <<>>
    /\ num_articles' \in 1..Len(batch_articles)
    /\ pc' = "sa_inner"
    /\ UNCHANGED <<articles, batch_articles, summaries, wait_time, result,
                   ssnVars, uiVars, histVars, callVars>>

\* while batch_articles: num_articles = len(batch_articles)
OuterLoop ==
    /\ pc = "sa_outer"
    /\ batch_articles # <<>>
    /\ num_articles' = Len(batch_articles)
    /\ pc' = "sa_inner"
    /\ UNCHANGED <<articles, batch_articles, summaries, wait_time, result,
                   ssnVars, uiVars, histVars, callVars>>

\* the outer loop ends on an empty queue
QueueEmpty ==
    /\ pc = "sa_outer"
    /\ batch_articles = <<>>
    /\ Returned(summaries)
    /\ UNCHANGED <<saVars, ssnVars, uiVars, histVars, callVars>>

\* variant: the candidate is halved
LocalShrinkHalves ==
    /\ pc = "sa_inner"
    /\ num_articles > 0
    /\ ~Fits(Batch)
    /\ num_articles' = num_articles \div 2
    /\ UNCHANGED <<pc, articles, batch_articles, summaries, wait_time, result,
                   ssnVars, uiVars, histVars, callVars>>

\* else: num_articles -= 1
LocalShrink ==
    /\ pc = "sa_inner"
    /\ num_articles > 0
    /\ ~Fits(Batch)
    /\ num_articles' = num_articles - 1
    /\ UNCHANGED <<pc, articles, batch_articles, summaries, wait_time, result,
                   ssnVars, uiVars, histVars, callVars>>

\* the call returns some text: append it stripped, cut the queue, break
ModelSuccess ==
    /\ pc = "sa_inner"
    /\ num_articles > 0
    /\ Fits(Batch)
    /\ \E text \in ModelTexts(Batch) :
          /\ summaries' = Append(summaries, Strip(text))
          /\ Record(TextTag(text), NoError)
    /\ batch_articles' = Rest(batch_articles, num_articles)
    /\ pc' = "sa_outer"
    /\ batches' = Append(batches, Batch)
    /\ UNCHANGED <<articles, num_articles, wait_time, result, ssnVars, uiVars,
                   lookups, fetches, callVars>>

\* variant: the rate-limit branch shrinks the candidate as well
ModelRateLimitShrinks(e) ==
    /\ pc = "sa_inner"
    /\ num_articles > 0
    /\ Fits(Batch)
    /\ Classify(e) = "rate_limit"
    /\ rateLimits < MaxRateLimits
    /\ wait_time' = WaitTime(e)
    /\ num_articles' = num_articles - 1
    /\ Record("rate_limit", e)
    /\ UNCHANGED <<pc, articles, batch_articles, summaries, result, ssnVars,
                   uiVars, batches, lookups, fetches, callVars>>

\* except APIError, 'rate_limit_exceeded': sleep, same size again
ModelRateLimit(e) ==
    /\ pc = "sa_inner"
    /\ num_articles > 0
    /\ Fits(Batch)
    /\ Classify(e) = "rate_limit"
    /\ rateLimits < MaxRateLimits
    /\ wait_time' = WaitTime(e)
    /\ Record("rate_limit", e)
    /\ UNCHANGED <<pc, articles, batch_articles, summaries, num_articles,
                   result, ssnVars, uiVars, batches, lookups, fetches, callVars>>

\* variant: the context-length branch cuts the queue, not the candidate
ModelContextLengthCutsQueue(e) ==
    /\ pc = "sa_inner"
    /\ num_articles > 0
    /\ Fits(Batch)
    /\ Classify(e) = "context_length"
    /\ num_articles' = num_articles - 1
    /\ batch_articles' = SubSeq(batch_articles, 1, Len(batch_articles) - 1)
    /\ Record("context_length", e)
    /\ UNCHANGED <<pc, articles, summaries, wait_time, result, ssnVars,
                   uiVars, batches, lookups, fetches, callVars>>

\* variant: an article refused alone is dropped and the outer loop goes on
ModelContextLengthDropsFront(e) ==
    /\ pc = "sa_inner"
    /\ num_articles > 0
    /\ Fits(Batch)
    /\ Classify(e) = "context_length"
    /\ IF num_articles = 1
       THEN /\ batch_articles' = Tail(batch_articles)
            /\ pc' = "sa_outer"
            /\ UNCHANGED num_articles
       ELSE /\ num_articles' = num_articles - 1
            /\ UNCHANGED <<pc, batch_articles>>
    /\ Record("context_length", e)
    /\ UNCHANGED <<articles, summaries, wait_time, result, ssnVars,
                   uiVars, batches, lookups, fetches, callVars>>

\* except APIError, context length: num_articles -= 1
ModelContextLength(e) ==
    /\ pc = "sa_inner"
    /\ num_articles > 0
    /\ Fits(Batch)
    /\ Classify(e) = "context_length"
    /\ num_articles' = num_articles - 1
    /\ Record("context_length", e)
    /\ UNCHANGED <<pc, articles, batch_articles, summaries, wait_time, result,
                   ssnVars, uiVars, batches, lookups, fetches, callVars>>

\* variant: the error message is returned with the summaries
ModelOtherErrorLeaks(e) ==
    /\ pc = "sa_inner"
    /\ num_articles > 0
    /\ Fits(Batch)
    /\ Classify(e) = "other"
    /\ Returned(Append(summaries, <<"Error generating summary">>))
    /\ Record("other", e)
    /\ UNCHANGED <<saVars, ssnVars, uiVars, batches, lookups, fetches,
                   callVars>>

\* except APIError, anything else: return "\n\n".join(summaries)
ModelOtherError(e) ==
    /\ pc = "sa_inner"
    /\ num_articles > 0
    /\ Fits(Batch)
    /\ Classify(e) = "other"
    /\ Returned(summaries)
    /\ Record("other", e)
    /\ UNCHANGED <<saVars, ssnVars, uiVars, batches, lookups, fetches, callVars>>

\* variant: the article at the front is skipped and the outer loop goes on
SizeExhaustedSkips ==
    /\ pc = "sa_inner"
    /\ num_articles = 0
    /\ batch_articles' = Tail(batch_articles)
    /\ pc' = "sa_outer"
    /\ UNCHANGED <<articles, summaries, num_articles, wait_time, result,
                   ssnVars, uiVars, histVars, callVars>>

\* variant: the outer loop starts over on the same queue
SizeExhaustedRestarts ==
    /\ pc = "sa_inner"
    /\ num_articles = 0
    /\ pc' = "sa_outer"
    /\ UNCHANGED <<saVars, result, ssnVars, uiVars, histVars, callVars>>

\* inner loop left with num_articles == 0: break, then join and return
SizeExhausted ==
    /\ pc = "sa_inner"
    /\ num_articles = 0
    /\ Returned(summaries)
    /\ UNCHANGED <<saVars, ssnVars, uiVars, histVars, callVars>>

(* ----------------------- summarize_stock_news ------------------------- *)
MsgInvalidDates == <<"Please enter valid dates in YYYY-MM-DD format.">>
MsgDateOrder == <<"Start date must be before end date.">>
MsgInvalidTicker == <<"Invalid stock ticker.">>
MsgLookupFailed == <<"Failed to retrieve company information.">>
MsgNoArticles == <<"No articles found.">>

\* a datetime.date
DateObj(d) == [type |-> "date", day |-> d]

\* a str argument: pad (surrounding blanks), empty (nothing else in it),
\* valid (the rest reads as %Y-%m-%d, and then names day)
DateStr(pad, empty, valid, d) ==
    [type |-> "str", pad |-> pad, empty |-> empty, valid |-> valid, day |-> d]

InputDays == {5, 20}

DateArgs ==
    {NoneVal}
    \cup { DateObj(d) : d \in InputDays }
    \cup { DateStr(p, TRUE, FALSE, 0) : p \in BOOLEAN }
    \cup { DateStr(p, FALSE, FALSE, 0) : p \in BOOLEAN }
    \cup { DateStr(p, FALSE, TRUE, d) : p \in BOOLEAN, d \in InputDays }

\* Python truth value of a date argument: None and "" are false
Truthy(x) ==
    CASE x.type = "NoneType" -> FALSE
      [] x.type = "str" -> ~(x.empty /\ ~x.pad)
      [] OTHER -> TRUE

\* datetime.strptime(x.strip(), '%Y-%m-%d') succeeds
Parses(x) == ~x.empty /\ x.valid

\* the argument after the default and the isinstance(str) conversion;
\* only used where the conversion does not raise
AsDate(x, default) ==
    IF ~Truthy(x) THEN DateObj(default)
    ELSE IF x.type = "str" THEN DateObj(x.day)
    ELSE x

\* the try block raises ValueError
DateValueError(x) == Truthy(x) /\ x.type = "str" /\ ~Parses(x)

StartDefault == Today - DefaultWindow

\* What the call was given, kept for the properties: whether a str argument
\* does not read as a date even after strip() ("empty": only by being "",
\* "other": in some other way), and whether both arguments name dates with
\* the start after the end.
Unreadable(x) ==
    IF x.type # "str" \/ (~x.empty /\ x.valid) THEN "none"
    ELSE IF x.empty /\ ~x.pad THEN "empty"
    ELSE "other"

NamesDate(x) == x.type = "date" \/ (x.type = "str" /\ ~x.empty /\ x.valid)

ArgFacts(s, e) ==
    [unreadable |->
        IF "other" \in {Unreadable(s), Unreadable(e)} THEN "other"
        ELSE IF "empty" \in {Unreadable(s), Unreadable(e)} THEN "empty"
        ELSE "none",
     reversed |-> NamesDate(s) /\ NamesDate(e) /\ s.day > e.day]

NoArgs == [unreadable |-> "none", reversed |-> FALSE]

\* variant: the comparison is turned round
DateOrderErrorSwapped(s, e) == s.day < e.day

\* if start_date > end_date:
DateOrderError(s, e) == s.day > e.day

\* summarize_stock_news up to the company lookup
SummarizeStockNews(s, e) ==
    /\ entry' = "summarize_stock_news"
    /\ args' = ArgFacts(s, e)
    /\ UNCHANGED <<saVars, uiVars, histVars>>
    /\ IF DateValueError(s) \/ DateValueError(e)
       THEN /\ result' = MsgInvalidDates
            /\ pc' = "returned"
            /\ UNCHANGED ssnVars
       ELSE /\ start_date' = AsDate(s, StartDefault)
            /\ end_date' = AsDate(e, Today)
            /\ IF DateOrderError(start_date', end_date')
               THEN /\ result' = MsgDateOrder
                    /\ pc' = "returned"
               ELSE /\ pc' = "ssn_lookup"
                    /\ UNCHANGED result

CallSummarizeStockNews(s, e) ==
    /\ pc = "idle"
    /\ SummarizeStockNews(s, e)

LookupOutcomes == {"name", "empty", "raise"}

\* yf.Ticker(ticker).info.get('longName', '') inside try / except Exception
CompanyLookup(o) ==
    /\ pc = "ssn_lookup"
    /\ lookups' = lookups + 1
    /\ CASE o = "name" -> pc' = "ssn_fetch" /\ UNCHANGED result
         [] o = "empty" -> pc' = "returned" /\ result' = MsgInvalidTicker
         [] OTHER -> pc' = "returned" /\ result' = MsgLookupFailed
    /\ UNCHANGED <<saVars, ssnVars, uiVars, batches, lastCall, seen,
                   modelCalls, rateLimits, fetches, callVars>>

\* variant: the list goes to summarize_articles without the empty check
FetchNewsUnchecked(arts) ==
    /\ pc = "ssn_fetch"
    /\ fetches' = fetches + 1
    /\ start_date' = NoneVal
    /\ end_date' = NoneVal
    /\ args' = NoArgs
    /\ Enter(arts)
    /\ UNCHANGED <<result, uiVars, batches, lastCall, seen, modelCalls,
                   rateLimits, lookups, entry>>

\* fetch_news returns the filtered, deduplicated list (the feed decides
\* which); an empty list ends the call, any other goes to summarize_articles.
\* start_date and end_date are read here for the last time: they are
\* let go, and with them what is remembered of the arguments.
FetchNews(arts) ==
    /\ pc = "ssn_fetch"
    /\ fetches' = fetches + 1
    /\ start_date' = NoneVal
    /\ end_date' = NoneVal
    /\ args' = NoArgs
    /\ IF arts = <<>>
       THEN /\ result' = MsgNoArticles
            /\ pc' = "returned"
            /\ UNCHANGED saVars
       ELSE /\ Enter(arts)
            /\ UNCHANGED result
    /\ UNCHANGED <<uiVars, batches, lastCall, seen, modelCalls, rateLimits,
                   lookups, entry>>

\* requests.get raises inside fetch_news: nothing catches it
FetchRaises ==
    /\ pc = "ssn_fetch"
    /\ fetches' = fetches + 1
    /\ pc' = "raised"
    /\ UNCHANGED <<saVars, result, ssnVars, uiVars, batches, lastCall, seen,
                   modelCalls, rateLimits, lookups, callVars>>

(* ---------------------------- the UI script --------------------------- *)
Passwords == {Str(""), Str("pw")}
ConfiguredPasswords == {NoneVal, Str(""), Str("pw")}

\* if password == correct_password:
GateOpen(pw, cp) == pw = cp

\* the user edits the password field: the script reruns
EnterPassword(pw) ==
    /\ pc = "idle"
    /\ pw # password
    /\ password' = pw
    /\ shown' = GateOpen(pw, correct_password)
    /\ UNCHANGED <<pc, saVars, result, ssnVars, correct_password, histVars, callVars>>

\* the user presses Summarize on the form: the script reruns with the
\* button set and calls summarize_stock_news with the two date_input values
PressSummarize(s, e) ==
    /\ pc = "idle"
    /\ shown
    /\ GateOpen(password, correct_password)
    /\ SummarizeStockNews(DateObj(s), DateObj(e))

\* the call is over (value shown or exception reported); the locals and
\* the history of the run are gone
NextRequest ==
    /\ pc \in {"returned", "raised"}
    /\ pc' = "idle"
    /\ articles' = <<>>
    /\ batch_articles' = <<>>
    /\ summaries' = <<>>
    /\ num_articles' = 0
    /\ wait_time' = 0
    /\ result' = <<>>
    /\ start_date' = NoneVal
    /\ end_date' = NoneVal
    /\ batches' = <<>>
    /\ lastCall' = NoCall
    /\ seen' = {}
    /\ modelCalls' = 0
    /\ rateLimits' = 0
    /\ lookups' = 0
    /\ fetches' = 0
    /\ entry' = "none"
    /\ args' = NoArgs
    /\ UNCHANGED uiVars

(* --------------------------- specification ---------------------------- *)
\* no call is in progress
InitRun ==
    /\ pc = "idle"
    /\ articles = <<>>
    /\ batch_articles = <<>>
    /\ summaries = <<>>
    /\ num_articles = 0
    /\ wait_time = 0
    /\ result = <<>>
    /\ start_date = NoneVal
    /\ end_date = NoneVal
    /\ batches = <<>>
    /\ lastCall = NoCall
    /\ seen = {}
    /\ modelCalls = 0
    /\ rateLimits = 0
    /\ lookups = 0
    /\ fetches = 0
    /\ entry = "none"
    /\ args = NoArgs

\* the script has run once: the password field is still empty
InitGate(configured) ==
    /\ correct_password \in configured
    /\ password = Str("")
    /\ shown = GateOpen(password, correct_password)

\* the steps of a call of summarize_stock_news or summarize_articles
Step ==
    \/ OuterLoop
    \/ QueueEmpty
    \/ LocalShrink
    \/ ModelSuccess
    \/ \E e \in APIErrors : ModelRateLimit(e)
    \/ \E e \in APIErrors : ModelContextLength(e)
    \/ \E e \in APIErrors : ModelOtherError(e)
    \/ SizeExhausted
    \/ \E o \in LookupOutcomes : CompanyLookup(o)
    \/ \E arts \in ArticleLists : FetchNews(arts)
    \/ FetchRaises
    \/ NextRequest

\* Spec: the two functions called by a caller of the module, with no
\* APP_PASSWORD configured and the form left alone.
Init == InitRun /\ InitGate({NoneVal})

Next ==
    \/ \E arts \in ArticleLists : CallSummarizeArticles(arts)
    \/ \E s \in DateArgs, e \in DateArgs : CallSummarizeStockNews(s, e)
    \/ Step

Spec == Init /\ [][Next]_vars

\* one thread runs the call to its end: every enabled step is taken
FairSpec == Spec /\ WF_vars(Next)

\* AppSpec: the Streamlit script driven through its form.
AppInit == InitRun /\ InitGate(ConfiguredPasswords)

AppNext ==
    \/ \E pw \in Passwords : EnterPassword(pw)
    \/ \E s \in InputDays, e \in InputDays : PressSummarize(s, e)
    \/ Step

AppSpec == AppInit /\ [][AppNext]_vars

TypeOK ==
    /\ pc \in {"idle", "sa_outer", "sa_inner", "ssn_lookup", "ssn_fetch",
               "returned", "raised"}
    /\ num_articles \in 0..Len(articles)
    /\ Len(summaries) = Len(batches)
    /\ rateLimits <= MaxRateLimits

(* ----------------------------- properties ----------------------------- *)
InRun == pc \in {"sa_outer", "sa_inner"}

\* summarize_articles has returned (a returned message of summarize_stock_news
\* that never reached summarize_articles does not count)
SAReturned ==
    /\ pc = "returned"
    /\ entry = "summarize_articles" \/ articles # <<>>

SizeClasses == {"one", "many"}
Tags(outcomes) == SizeClasses \X outcomes

\* the stub's answer to a batch after strip(): the ids of its articles
BatchIds(b) == [i \in 1..Len(b) |-> IdChars[b[i].id]]

\* the summaries of the successful batches when every answer was the stub's
StubSummaries == [i \in 1..Len(batches) |-> BatchIds(batches[i])]

\* the article alone, rendered, is over the budget
OverBudget(a) ==
    (RenderLen(a) \div CharsPerToken) + max_output_tokens > max_tokens_per_minute

AllWithinBudget(l) == \A i \in 1..Len(l) : ~OverBudget(l[i])

\* the model call that has just been made in this step
NewCall == modelCalls' = modelCalls + 1

\* C1: once a model call has failed with an API error that is neither a
\* rate-limit nor a context-length error, the run is over (no further call
\* can follow) and the value returned is the summaries banked so far joined
\* by a blank line: with stub answers, the stripped answers of the successful
\* batches and nothing else; after one successful batch, that batch's summary.
C1_OtherErrorReturnsBanked ==
    lastCall.outcome = "other" =>
        /\ pc = "returned"
        /\ Len(summaries) = Len(batches)
        /\ result = Join(summaries)
        /\ seen \cap Tags({"blank"}) = {} => result = Join(StubSummaries)
        /\ seen \cap Tags({"blank"}) = {} /\ Len(batches) = 1
              => result = BatchIds(batches[1])

C1_Witness ==
    /\ lastCall.outcome = "other"
    /\ Len(batches) = 1
    /\ modelCalls = 2
    /\ result = <<"a", "b">>

\* the largest n <= k with q[:n] inside the budget, 0 if there is none
RECURSIVE LargestFit(_, _)
LargestFit(q, k) ==
    IF k = 0 THEN 0
    ELSE IF Fits(SubSeq(q, 1, k)) THEN k
    ELSE LargestFit(q, k - 1)

\* the summaries of a run in which every model call succeeds at once with
\* the stub's answer
RECURSIVE ImmediateSummaries(_)
ImmediateSummaries(q) ==
    IF q = <<>> THEN <<>>
    ELSE LET n == LargestFit(q, Len(q))
         IN  IF n = 0 THEN <<>>
             ELSE <<BatchIds(SubSeq(q, 1, n))>> \o ImmediateSummaries(Rest(q, n))

C2_RateLimitStep ==
    /\ NewCall /\ lastCall'.outcome = "rate_limit" =>
          /\ num_articles' = num_articles
          /\ batch_articles' = batch_articles
          /\ summaries' = summaries
          /\ pc' = pc
    /\ NewCall /\ lastCall.outcome = "rate_limit" =>
          /\ lastCall'.batch = lastCall.batch
          /\ Len(lastCall'.batch) = num_articles

\* C2: a rate-limit error leaves the candidate size, the remaining queue and
\* the accumulated summaries as they were, the model call after it is made
\* with the same batch, and a run whose model raised one rate-limit error and
\* otherwise answered returns what the run without the error returns.
C2_RateLimitKeepsBatch ==
    /\ [][C2_RateLimitStep]_vars
    /\ [](SAReturned /\ rateLimits <= 1 /\ seen \subseteq Tags({"ok"})
            => result = Join(ImmediateSummaries(articles)))

C2_Witness ==
    /\ SAReturned
    /\ rateLimits = 1
    /\ seen = {<<"many", "ok">>, <<"one", "ok">>}
    /\ wait_time = 3
    /\ result = <<"a", "b", "\n", "\n", "c">>

\* C3: against a model that raises a context-length error for every batch of
\* more than one article and answers every batch of one article, a run on n
\* articles that each fit the budget alone has exactly n successful calls,
\* the i-th on the i-th article alone, and returns the n summaries joined by
\* blank lines.
C3_ContextLengthSingles ==
    SAReturned /\ AllWithinBudget(articles)
      /\ seen \subseteq {<<"many", "context_length">>, <<"one", "ok">>}
    => /\ batches = [i \in 1..Len(articles) |-> <<articles[i]>>]
       /\ Len(summaries) = Len(articles)
       /\ result = Join([i \in 1..Len(articles) |-> <<IdChars[i]>>])

C3_Witness ==
    /\ SAReturned
    /\ Len(articles) = MaxArticles
    /\ seen = {<<"many", "context_length">>, <<"one", "ok">>}
    /\ Len(batches) = MaxArticles
    /\ modelCalls > MaxArticles

\* the outcomes that let a run get through: answers that are not blank,
\* rate-limit errors, context-length errors on batches of several articles
Benign == Tags({"ok"}) \cup {<<"many", "context_length">>}

C5_SubmittedWithinBudget ==
    lastCall.outcome # "none" =>
        /\ lastCall.batch # <<>>
        /\ lastCall.tokens = InputTokens(lastCall.batch) + max_output_tokens
        /\ lastCall.tokens <= max_tokens_per_minute
        /\ lastCall.tokens <= max_model_tokens

C5_Witness ==
    /\ lastCall.outcome = "ok"
    /\ Len(lastCall.batch) = 2
    /\ lastCall.tokens = max_tokens_per_minute

C6_RunStep ==
    InRun =>
        /\ Len(summaries') >= Len(summaries)
        /\ Len(batch_articles') <= Len(batch_articles)
        /\ IF NewCall /\ lastCall'.outcome \in {"ok", "blank"}
           THEN /\ Len(summaries') = Len(summaries) + 1
                /\ SubSeq(summaries', 1, Len(summaries)) = summaries
                /\ Len(lastCall'.batch) >= 1
                /\ lastCall'.batch
                      = SubSeq(batch_articles, 1, Len(lastCall'.batch))
                /\ batch_articles'
                      = SubSeq(batch_articles, Len(lastCall'.batch) + 1,
                               Len(batch_articles))
           ELSE /\ summaries' = summaries
                /\ batch_articles' = batch_articles

\* C6: in a run the accumulated summaries never get fewer and the remaining
\* queue never gets longer; a successful model call adds one summary and
\* takes the submitted batch off the front of the queue, every other step
\* leaves both as they were.
C6_Monotone == [][C6_RunStep]_vars

C6_Witness ==
    /\ pc = "sa_inner"
    /\ Len(batches) = 1
    /\ Len(batches[1]) = 2
    /\ Len(summaries) = 1
    /\ Len(batch_articles) = 1
    /\ lastCall.outcome = "context_length"

\* the characters of a string
Chars(str) == { str[i] : i \in 1..Len(str) }

OverBudgetIn(l) == { i \in 1..Len(l) : OverBudget(l[i]) }

\* C7: an article that is over the budget alone is in no batch submitted to
\* the model and in no summarized batch, and its content is absent from the
\* returned string; the run ends (no exception, no hang) and returns the
\* summaries gathered.
C7_OverBudgetDropped ==
    /\ [](\A i \in OverBudgetIn(articles) :
            /\ \A k \in 1..Len(lastCall.batch) : lastCall.batch[k] # articles[i]
            /\ \A b \in 1..Len(batches) :
                  \A k \in 1..Len(batches[b]) : batches[b][k] # articles[i]
            /\ SAReturned => IdChars[i] \notin Chars(result))
    /\ [](SAReturned /\ OverBudgetIn(articles) # {}
            => /\ result = Join(summaries)
               /\ Len(summaries) = Len(batches)
               /\ Len(summaries) < Len(articles))
    /\ (InRun /\ OverBudgetIn(articles) # {}) ~> SAReturned

C7_Witness ==
    /\ SAReturned
    /\ Len(articles) = 3
    /\ OverBudgetIn(articles) = {3}
    /\ seen = {<<"many", "ok">>}
    /\ result = <<"a", "b">>

\* C8: no failure of a collaborator reaches the caller of
\* summarize_stock_news as a raised exception.
C8_NoExceptionReachesCaller == pc # "raised"

NoNetwork == lookups = 0 /\ fetches = 0 /\ modelCalls = 0

ValidationMessages == {MsgInvalidDates, MsgDateOrder}

\* C9 as stated: a call with the start after the end, or with a date string
\* that does not read as YYYY-MM-DD, returns a validation message and makes no
\* network call.
C9_BadDatesNoNetwork ==
    args.reversed \/ args.unreadable # "none" =>
        /\ NoNetwork
        /\ pc = "returned"
        /\ result \in ValidationMessages

\* C9 as amended: a call with the start after the end, or with a non-empty
\* date string that does not read as YYYY-MM-DD, returns a validation message
\* and makes no network call (an empty string counts as no date given).
C9_BadDatesNoNetworkNonEmpty ==
    args.reversed \/ args.unreadable = "other" =>
        /\ NoNetwork
        /\ pc = "returned"
        /\ result \in ValidationMessages

C9_Witness ==
    /\ args.reversed
    /\ args.unreadable = "none"
    /\ pc = "returned"
    /\ result = MsgDateOrder
    /\ start_date = DateObj(20)
    /\ end_date = DateObj(5)

\* C10: with APP_PASSWORD missing or empty the gate never opens, whatever is
\* in the password field.
C10_GateClosedWithoutPassword ==
    correct_password \in {NoneVal, Str("")} => ~shown

\* C11: an empty article list never causes a model call: summarize_articles
\* on the empty list goes from the loop test straight to the return of the
\* empty string, and summarize_stock_news, when fetch_news returns no
\* article, returns "No articles found." without entering summarize_articles.
C11_EmptyListNoModelCall ==
    /\ entry = "summarize_articles" /\ articles = <<>> =>
          /\ pc \in {"sa_outer", "returned"}
          /\ num_articles = 0
          /\ modelCalls = 0
          /\ pc = "returned" => result = <<>>
    /\ entry = "summarize_stock_news" /\ fetches > 0 /\ articles = <<>>
          /\ pc # "raised" =>
          /\ pc = "returned"
          /\ result = MsgNoArticles
          /\ modelCalls = 0
          /\ batch_articles = <<>> /\ summaries = <<>>

C11_Witness ==
    /\ entry = "summarize_stock_news"
    /\ pc = "returned"
    /\ lookups = 1
    /\ fetches = 1
    /\ modelCalls = 0
    /\ result = MsgNoArticles

\* the wait suggested by the provider, 60 when the message names none
SuggestedWait(e) == IF e.hasWait THEN e.wait ELSE DefaultWait

\* C12 as stated: on a rate-limit error the sleep is the suggested wait plus
\* one second, the suggested wait being 60 when the message names none
\* (w + 1 and 60 + 1).
C12_MarginInBothCases ==
    lastCall.outcome = "rate_limit" =>
        wait_time = SuggestedWait(lastCall.error) + 1

\* C12 as amended: on a rate-limit error the sleep is w + 1 when the message
\* names a wait of w seconds, and 60 seconds, with no margin, when it names
\* none.
C12_MarginOnlyWhenParsed ==
    lastCall.outcome = "rate_limit" =>
        /\ lastCall.error.rate
        /\ lastCall.error.hasWait => wait_time = lastCall.error.wait + 1
        /\ ~lastCall.error.hasWait => wait_time = DefaultWait

C12_Witness ==
    /\ lastCall.outcome = "rate_limit"
    /\ ~lastCall.error.hasWait
    /\ wait_time = 60
    /\ rateLimits = 2

\* the local estimate of the candidate batch is over the budget
CandidateOverBudget ==
    /\ pc = "sa_inner"
    /\ num_articles > 0
    /\ (SummaryInputLen(SubSeq(batch_articles, 1, num_articles))
           \div CharsPerToken) + max_output_tokens > max_tokens_per_minute

C13_LocalShrinkStep ==
    CandidateOverBudget =>
        /\ num_articles' = num_articles - 1
        /\ pc' = "sa_inner"
        /\ modelCalls' = modelCalls
        /\ lastCall' = lastCall
        /\ wait_time' = wait_time
        /\ batch_articles' = batch_articles
        /\ summaries' = summaries
        /\ articles' = articles

\* C13: when the local estimate of the candidate batch is over the budget,
\* the step taken lowers the candidate size by exactly one, calls no model,
\* does not sleep and leaves the remaining queue and the summaries alone.
C13_LocalShrinkFrame == [][C13_LocalShrinkStep]_vars

C13_Witness ==
    /\ pc = "sa_inner"
    /\ Len(batch_articles) = 3
    /\ num_articles = 2
    /\ modelCalls = 0
    /\ wait_time = 0
    /\ ~CandidateOverBudget

\* every candidate size for the current queue has been rejected
Exhausted == pc = "sa_inner" /\ num_articles = 0

C14_ExhaustedStep ==
    /\ Exhausted =>
          /\ pc' = "returned"
          /\ result' = Join(summaries)
          /\ modelCalls' = modelCalls
          /\ summaries' = summaries
          /\ batch_articles' = batch_articles
    /\ pc = "returned" => ~NewCall /\ pc' = "idle"

\* C14: when the candidate size has come down to 0 for the current queue,
\* the next step leaves the loops and returns the summaries accumulated so
\* far, articles still being in the queue, and no model call follows in
\* the run.
C14_ExhaustionEndsRun ==
    /\ [][C14_ExhaustedStep]_vars
    /\ [](Exhausted => ENABLED SizeExhausted)
    /\ [](Exhausted =>
            /\ batch_articles # <<>>
            /\ lastCall.outcome \in {"ok", "blank", "context_length"}
                  \/ modelCalls = 0)

C14_Witness ==
    /\ SAReturned
    /\ num_articles = 0
    /\ Len(batch_articles) = 2
    /\ Len(summaries) = 1
    /\ lastCall = [batch |-> <<articles[2]>>, tokens |-> 3756,
                   outcome |-> "context_length",
                   error |-> [rate |-> FALSE, ctx |-> TRUE,
                              hasWait |-> FALSE, wait |-> 0]]
    /\ result = <<"a">>

\* the budget of a batch: min(max_model_tokens, max_tokens_per_minute)
Budget == max_tokens_per_minute

\* the candidate batch of the inner loop, as a slice of the queue
Candidate == SubSeq(batch_articles, 1, num_articles)

\* C15 as stated: the estimate of a submitted batch is round(length / 4), so
\* that the batches submitted are those with round(length / 4) + 512 <= 7000.
C15_EstimateRounded ==
    lastCall.outcome # "none" =>
        /\ lastCall.tokens
              = PyRoundQuarter(SummaryInputLen(lastCall.batch))
                   + max_output_tokens
        /\ PyRoundQuarter(SummaryInputLen(lastCall.batch))
              + max_output_tokens <= Budget

C15_CandidateStep ==
    pc = "sa_inner" /\ num_articles > 0 =>
        (NewCall <=> (SummaryInputLen(Candidate) \div CharsPerToken)
                        + max_output_tokens <= Budget)

\* C15 as amended: the estimate of a batch is int(length / 4), the quotient
\* rounded down, and a candidate batch is submitted exactly when
\* int(length / 4) + 512 <= 7000, for every prompt body length.
C15_EstimateTruncated ==
    /\ [](lastCall.outcome # "none" =>
            /\ lastCall.tokens
                  = (SummaryInputLen(lastCall.batch) \div CharsPerToken)
                       + max_output_tokens
            /\ lastCall.tokens <= Budget)
    /\ [][C15_CandidateStep]_vars

C15_Witness ==
    /\ lastCall.outcome = "context_length"
    /\ SummaryInputLen(lastCall.batch) = 25955
    /\ lastCall.tokens = 7000
    /\ PyRoundQuarter(25955) = 6489
    /\ num_articles = 1

\* the stripped answer of the i-th successful call: the stub's text for its
\* batch, or nothing when the answer was blank
IsAnswerTo(s, b) == s \in {BatchIds(b), <<>>}

C16_ExitStep ==
    InRun /\ pc' = "returned" =>
        /\ summaries' = summaries
        /\ batches' = batches
        /\ result' = Join(summaries)

\* C16: on every exit path of the batching procedure (queue empty, candidate
\* size exhausted, unrecognized service error) the value returned is the
\* stripped answers of the successful model calls, one per successful call
\* in the order of the calls, joined by a blank line, and nothing else.
C16_EveryExitJoinsSummaries ==
    /\ [][C16_ExitStep]_vars
    /\ [](InRun \/ SAReturned =>
            /\ Len(summaries) = Len(batches)
            /\ \A i \in 1..Len(summaries) :
                  IsAnswerTo(summaries[i], batches[i]))
    /\ [](SAReturned =>
            /\ result = Join(summaries)
            /\ Len(summaries) = 0 => result = <<>>
            /\ Len(summaries) = 1 => result = summaries[1]
            /\ Len(summaries) = 2 =>
                  result = summaries[1] \o <<"\n", "\n">> \o summaries[2])

C16_Witness ==
    /\ SAReturned
    /\ lastCall.outcome = "other"
    /\ Len(batches) = 2
    /\ Len(articles) = 3
    /\ result = <<"a", "\n", "\n", "b">>

\* a deterministic model: its outcome on a batch is a function of the size
\* class of the batch (a rate-limit error, which leaves the batch to be
\* submitted again, is not an outcome of such a model)
Stubs == [SizeClasses -> {"ok", "blank", "context_length", "other"}]

\* every answer of the run so far is the one the stub f gives
AnsweredBy(f) == \A t \in seen : t[2] = f[t[1]]

\* summarize_articles as a function of the articles and the stub alone: the
\* queue q, the candidate size n (-1 before the inner loop), the successful
\* batches bs, the summaries ss, the calls made c, the last batch sent last
RECURSIVE StubRun(_, _, _, _, _, _, _)
StubRun(f, q, n, bs, ss, c, last) ==
    LET done == [batches |-> bs, result |-> Join(ss), calls |-> c,
                 last |-> last]
        b == SubSeq(q, 1, n)
    IN  IF n = -1
        THEN IF q = <<>> THEN done
             ELSE StubRun(f, q, Len(q), bs, ss, c, last)
        ELSE IF n = 0 THEN done
        ELSE IF ~Fits(b) THEN StubRun(f, q, n - 1, bs, ss, c, last)
        ELSE CASE f[SizeClass(n)] = "ok" ->
                    StubRun(f, Rest(q, n), -1, Append(bs, b),
                            Append(ss, BatchIds(b)), c + 1, b)
               [] f[SizeClass(n)] = "blank" ->
                    StubRun(f, Rest(q, n), -1, Append(bs, b),
                            Append(ss, <<>>), c + 1, b)
               [] f[SizeClass(n)] = "context_length" ->
                    StubRun(f, q, n - 1, bs, ss, c + 1, b)
               [] OTHER -> [done EXCEPT !.calls = c + 1, !.last = b]

RunOf(f, q) == StubRun(f, q, -1, <<>>, <<>>, 0, <<>>)

C17_EntryStep ==
    ~InRun /\ InRun' =>
        /\ batch_articles' = articles'
        /\ summaries' = <<>>
        /\ pc' = "sa_outer"

\* C17: a run of summarize_articles starts from locals that are set from its
\* argument alone, and against a deterministic model the batches submitted
\* (how many, the last one, the successful ones with their boundaries) and
\* the string returned are a function of the article sequence and the model:
\* two runs on the same articles against the same model agree on all of it,
\* whatever ran before.
C17_RunIsFunctionOfInput ==
    /\ [][C17_EntryStep]_vars
    /\ [](SAReturned =>
            \A f \in Stubs :
                AnsweredBy(f) =>
                    /\ batches = RunOf(f, articles).batches
                    /\ result = RunOf(f, articles).result
                    /\ modelCalls - rateLimits = RunOf(f, articles).calls
                    /\ lastCall.batch = RunOf(f, articles).last)

C17_Witness ==
    /\ SAReturned
    /\ Len(articles) = 3
    /\ seen = {<<"many", "context_length">>, <<"one", "ok">>}
    /\ AnsweredBy([c \in SizeClasses |->
                      IF c = "one" THEN "ok" ELSE "context_length"])
    /\ modelCalls = 6
    /\ rateLimits = 0
    /\ Len(batches) = 3
    /\ result = <<"a", "\n", "\n", "b", "\n", "\n", "c">>

\* the batches of a list, concatenated in order
RECURSIVE Flatten(_)
Flatten(l) == IF l = <<>> THEN <<>> ELSE l[1] \o Flatten(Tail(l))

\* the articles of the successful batches, counted
Summarized == Len(Flatten(batches))

C18_QueueStep ==
    InRun =>
        /\ articles' = articles
        /\ NewCall /\ lastCall'.outcome \in {"ok", "blank"} =>
              /\ batch_articles' = SubSeq(batch_articles, num_articles + 1,
                                          Len(batch_articles))
              /\ batches' = Append(batches,
                                   SubSeq(batch_articles, 1, num_articles))
        /\ ~(NewCall /\ lastCall'.outcome \in {"ok", "blank"}) =>
              /\ batch_articles' = batch_articles
              /\ batches' = batches

\* C18: throughout a run of summarize_articles the remaining queue is a
\* suffix of the input and the successful batches, concatenated in order,
\* are the complementary prefix: every batch is non-empty and starts where
\* the one before it ended, so no article is in two batches and none is
\* skipped between two batches; the list passed by the caller stays as it
\* was.
C18_BatchesPartitionPrefix ==
    /\ [][C18_QueueStep]_vars
    /\ [](InRun \/ SAReturned =>
            /\ Flatten(batches) \o batch_articles = articles
            /\ batch_articles
                  = SubSeq(articles, Summarized + 1, Len(articles))
            /\ Flatten(batches) = SubSeq(articles, 1, Summarized)
            /\ \A i \in 1..Len(batches) : batches[i] # <<>>
            /\ \A i \in 1..Len(articles) : articles[i].id = i)

C18_Witness ==
    /\ pc = "sa_inner"
    /\ Len(articles) = 3
    /\ Len(batches) = 2
    /\ Len(batch_articles) = 1
    /\ batch_articles[1] = articles[3]

\* what is left to do in a run: the queue first, then the candidate size
Rank ==
    Len(batch_articles) * (Len(articles) + 2)
       + (IF pc = "sa_outer" THEN Len(articles) + 1 ELSE num_articles)

RateLimited == NewCall /\ lastCall'.outcome = "rate_limit"

C19_ProgressStep ==
    InRun =>
        \/ pc' = "returned"
        \/ pc' \in {"sa_outer", "sa_inner"} /\ ~RateLimited /\ Rank' < Rank
        \/ pc' = pc /\ RateLimited /\ Rank' = Rank

\* C19: a run of summarize_articles in which the rate-limit errors are
\* finitely many returns, whatever the articles and the other outcomes of
\* the model: every step of a run other than a rate-limit error returns or
\* brings the run closer to its end, a rate-limit error leaves the run where
\* it was, and a rate-limit error is possible at every model call however
\* many came before (up to the number the model explores), so that an
\* unending series of them on one batch is the one way of not returning.
C19_TerminatesUnlessRateLimited ==
    /\ [][C19_ProgressStep]_vars
    /\ [](pc = "sa_inner" /\ num_articles > 0 /\ Fits(Candidate)
            /\ rateLimits < MaxRateLimits
          => ENABLED (\E e \in APIErrors : ModelRateLimit(e)))
    /\ InRun ~> SAReturned

C19_Witness ==
    /\ SAReturned
    /\ rateLimits = MaxRateLimits
    /\ Len(articles) = 3
    /\ modelCalls = MaxRateLimits + 4
    /\ {<<"many", "context_length">>, <<"one", "blank">>} \subseteq seen
    /\ lastCall.outcome = "other"

\* the article at the front of the queue was refused as a batch of one: the
\* candidate size is 0 with articles left, in the inner loop or returned
Stuck ==
    /\ pc \in {"sa_inner", "returned"}
    /\ num_articles = 0
    /\ batch_articles # <<>>

RefusedAlone ==
    /\ lastCall.outcome = "context_length"
    /\ Len(lastCall.batch) = 1

C20_StuckStep ==
    /\ pc = "sa_inner" /\ num_articles = 1 /\ ~Fits(Candidate) => Stuck'
    /\ Stuck =>
          /\ ~NewCall
          /\ pc' # "idle" =>
                /\ Stuck'
                /\ pc' = "returned"
                /\ batches' = batches
                /\ batch_articles' = batch_articles

\* C20: when the article at the front of the queue is refused as a batch of
\* one, by the local estimate or by a context-length error, the run makes
\* no further model call and returns with that article and every article
\* behind it still in the queue: none of them is in a successful batch or in
\* the string returned, whether or not it would fit the budget alone.
C20_FrontBlocksRest ==
    /\ [][C20_StuckStep]_vars
    /\ [](RefusedAlone => Stuck /\ lastCall.batch = <<batch_articles[1]>>)
    /\ [](Stuck =>
            /\ OverBudget(batch_articles[1])
                  \/ (RefusedAlone /\ lastCall.batch[1] = batch_articles[1])
            /\ batch_articles
                  = SubSeq(articles, Len(articles) - Len(batch_articles) + 1,
                           Len(articles))
            /\ \A j \in 1..Len(batch_articles) :
                  /\ \A b \in 1..Len(batches) :
                        \A k \in 1..Len(batches[b]) :
                            batches[b][k].id # batch_articles[j].id
                  /\ pc = "returned" =>
                        IdChars[batch_articles[j].id] \notin Chars(result))

C20_Witness ==
    /\ SAReturned
    /\ Stuck
    /\ RefusedAlone
    /\ Len(batches) = 1
    /\ Len(batch_articles) = 2
    /\ ~OverBudget(batch_articles[2])
    /\ result = <<"a">>

====
